---- MODULE Spec2Model ----
(***************************************************************************)
(* Model of mootdx/quotes.py: the standard-market facade StdQuotes, the    *)
(* extended-market facade ExtQuotes with its tenacity retry decorator, the *)
(* session helpers of BaseQuotes and the date-range resolver get_k_data.   *)
(*                                                                         *)
(* One facade object exists per behaviour; the caller invokes one         *)
(* operation at a time (the code is synchronous and single threaded).     *)
(* Python strings are sequences of one-character strings, so that split,   *)
(* slicing, int() and the lexicographic comparison of str are computed.    *)
(***************************************************************************)
EXTENDS Integers, Sequences, FiniteSets, TLC

VARIABLES
    facade,     \* "std" (StdQuotes) or "ext" (ExtQuotes): the class of the object
    transport,  \* self.client and its socket self.client.client:
                \*   "noclient"     self.client is None (the class attribute)
                \*   "none"         no socket object, so no _closed flag
                \*   "unconnected"  a socket that never connected, _closed False
                \*   "open"         a connected socket, _closed False
                \*   "closed"       a socket with _closed True
    pc,         \* "new" (not constructed), "idle", "attempt" (retry loop about to
                \* run the body), "wait", "done", "gone" (no object any more)
    op,         \* name of the operation in progress or just finished
    args,       \* its arguments
    attempt,    \* tenacity's retry_state.attempt_number
    hist,       \* outcome of every execution of the body, in order
    waited,     \* the last back-off drawn by wait_random
    log,        \* the remote requests issued by the operation, in order
    ret         \* what the operation handed to its caller

vars == <<facade, transport, pc, op, args, attempt, hist, waited, log, ret>>

----------------------------------------------------------------------------
(* Bounds of the model *)

\* how many whole list pages a reported stock count may span
MaxPages == 2

\* number of bar pages whose content the remote chooses freely
MaxBarPages == 2

----------------------------------------------------------------------------
(* Program constants *)

MARKET_SZ == 0
MARKET_SH == 1

StopAttempts == 3
WaitMin == 1
WaitMax == 10
BarsLimit == 800
ListPage == 1000
InstrumentPage == 100

----------------------------------------------------------------------------
(* Python values and outcomes *)

NoneVal == [kind |-> "none", cols |-> FALSE, rows |-> <<>>, n |-> 0]
IntVal(k) == [kind |-> "int", cols |-> FALSE, rows |-> <<>>, n |-> k]
ListVal(rows) == [kind |-> "list", cols |-> FALSE, rows |-> rows, n |-> 0]
\* a DataFrame: cols says whether it has any column
Frame(rows) == [kind |-> "table", cols |-> rows # <<>>, rows |-> rows, n |-> 0]

Ok(v) == [raised |-> FALSE, exc |-> "", value |-> v]
Raise(e) == [raised |-> TRUE, exc |-> e, value |-> NoneVal]

\* mootdx.utils.to_data: None and empty input give an empty table, a list of
\* records is converted row by row
to_data(v) ==
    IF v.kind = "table" THEN v
    ELSE IF v.kind = "list" THEN Frame(v.rows)
    ELSE Frame(<<>>)

\* mootdx.utils.get_frequency: a K-line category 0..11, anything else is 0
get_frequency(f) == IF f \in 0..11 THEN f ELSE 0

----------------------------------------------------------------------------
(* Strings *)

Digits == {"0", "1", "2", "3", "4", "5", "6", "7", "8", "9"}

DigitVal(c) ==
    CASE c = "0" -> 0 [] c = "1" -> 1 [] c = "2" -> 2 [] c = "3" -> 3
      [] c = "4" -> 4 [] c = "5" -> 5 [] c = "6" -> 6 [] c = "7" -> 7
      [] c = "8" -> 8 [] c = "9" -> 9

\* the code point of a character, for str's ordering
Ord(c) ==
    CASE c \in Digits -> 48 + DigitVal(c)
      [] c = " " -> 32
      [] c = "#" -> 35
      [] c = "-" -> 45
      [] c = ":" -> 58
      [] OTHER -> 97

IsDigits(s) == s # <<>> /\ \A i \in 1..Len(s) : s[i] \in Digits

RECURSIVE StrToInt(_)
StrToInt(s) ==
    IF s = <<>> THEN 0 ELSE 10 * StrToInt(SubSeq(s, 1, Len(s) - 1)) + DigitVal(s[Len(s)])

\* s < t for two str (lexicographic on code points)
RECURSIVE StrLess(_, _)
StrLess(s, t) ==
    IF t = <<>> THEN FALSE
    ELSE IF s = <<>> THEN TRUE
    ELSE IF Ord(s[1]) # Ord(t[1]) THEN Ord(s[1]) < Ord(t[1])
    ELSE StrLess(Tail(s), Tail(t))

StrLeq(s, t) == s = t \/ StrLess(s, t)

\* s.split('#')
RECURSIVE SplitHash(_)
SplitHash(s) ==
    IF \A i \in 1..Len(s) : s[i] # "#" THEN <<s>>
    ELSE LET k == CHOOSE i \in 1..Len(s) : s[i] = "#" /\ \A j \in 1..(i - 1) : s[j] # "#"
         IN  <<SubSeq(s, 1, k - 1)>> \o SplitHash(SubSeq(s, k + 1, Len(s)))

----------------------------------------------------------------------------
(* BaseQuotes *)

\* the closed property: True unless the socket has a _closed flag that is
\* False (reading it with self.client None is an AttributeError, see below)
closed == transport \notin {"open", "unconnected"}

\* self.client is None: every self.client.<name> is an AttributeError
NoClient == transport = "noclient"

\* one remote request as the transport sees it
Request(api, start, count) ==
    [api |-> api, start |-> start, count |-> count, alive |-> ~closed]

\* close(): the transport is released when there is one
close_transport(t) == IF t \in {"none", "noclient"} THEN t ELSE "closed"

\* close() without the hasattr guard: None.close() is an AttributeError
close_callUnguarded(t) ==
    IF t = "noclient"
    THEN [out |-> Raise("AttributeError"), reqs |-> <<>>, transport |-> t]
    ELSE [out |-> Ok(NoneVal), reqs |-> <<Request("close", 0, 0)>>,
          transport |-> close_transport(t)]

\* hasattr(self.client, 'close') and self.client.close(): the outcome, the
\* calls made on the client and the transport afterwards
close_call(t) ==
    IF t = "noclient"
    THEN [out |-> Ok(NoneVal), reqs |-> <<>>, transport |-> t]
    ELSE [out |-> Ok(NoneVal), reqs |-> <<Request("close", 0, 0)>>,
          transport |-> close_transport(t)]

\* self.bestip: a class attribute that no constructor assigns
bestip == NoneVal

\* reconnect(): connect(*self.bestip) when the session is closed; unpacking
\* None is a TypeError raised before connect is entered
reconnect_outcome(isClosed) ==
    IF ~isClosed THEN Ok(NoneVal)
    ELSE IF bestip.kind = "none" THEN Raise("TypeError")
    ELSE Ok(NoneVal)

----------------------------------------------------------------------------
(* tenacity: the decorator of every ExtQuotes operation *)

\* check_empty with the test inverted
check_emptyInverted(value) ==
    IF value.kind = "table" THEN value.cols
    ELSE IF value.kind = "int" THEN value.n # 0
    ELSE IF value.kind = "list" THEN value.rows # <<>>
    ELSE FALSE

\* check_empty(value): a DataFrame is empty when value.all() has no entry,
\* which is when it has no column; anything else is empty when falsy
check_empty(value) ==
    IF value.kind = "table" THEN ~value.cols
    ELSE IF value.kind = "int" THEN value.n = 0
    ELSE IF value.kind = "list" THEN value.rows = <<>>
    ELSE TRUE

\* retry_if_exception_type(): any Exception
retry_if_exception_type(o) == o.raised

\* retry_if_result(check_empty)
retry_if_result(o) == ~o.raised /\ check_empty(o.value)

\* the retry condition without retry_if_exception_type()
RetryPredicateResultOnly(o) == retry_if_result(o)

\* retry=(retry_if_exception_type() | retry_if_result(check_empty))
RetryPredicate(o) == retry_if_exception_type(o) \/ retry_if_result(o)

\* a stop condition that is one attempt late
stop_after_attemptLate(n) == n > StopAttempts

\* stop=stop_after_attempt(3)
stop_after_attempt(n) == n >= StopAttempts

\* mootdx.consts.return_last_value: the last result, None when the last
\* attempt raised
return_last_value(o) == IF o.raised THEN Ok(NoneVal) ELSE o

\* tenacity without retry_error_callback: RetryError is raised
OnExhaustedRaise(o) == Raise("RetryError")

\* retry_error_callback=return_last_value
OnExhausted(o) == return_last_value(o)

----------------------------------------------------------------------------
(* ExtQuotes *)

ExtTableOps == {"markets", "instrument", "quote", "minute", "minutes", "bars",
                "transaction", "transactions"}
ExtValidated == {"quote", "minute", "minutes", "bars", "transaction", "transactions"}
ExtOps == ExtTableOps \cup {"instrument_count", "instruments"}

\* validate that never looks for a '#' in the symbol
validateNoSplit(market, symbol) ==
    IF market = <<>> \/ ~IsDigits(market)
    THEN [raised |-> TRUE, market |-> 0, symbol |-> symbol]
    ELSE [raised |-> FALSE, market |-> StrToInt(market), symbol |-> symbol]

\* validate(market, symbol)
validate(market, symbol) ==
    LET parts == SplitHash(symbol)
        split == market = <<>> /\ Len(parts) > 1
        m == IF split THEN parts[1] ELSE market
        s == IF split THEN parts[2] ELSE symbol
    IN  IF m = <<>> \/ ~IsDigits(m)
        THEN [raised |-> TRUE, market |-> 0, symbol |-> s]
        ELSE [raised |-> FALSE, market |-> StrToInt(m), symbol |-> s]

\* the remote function an operation calls
ExtApi(o) ==
    CASE o = "markets" -> "get_markets"
      [] o = "instrument" -> "get_instrument_info"
      [] o = "instrument_count" -> "get_instrument_count"
      [] o = "quote" -> "get_instrument_quote"
      [] o = "minute" -> "get_minute_time_data"
      [] o = "minutes" -> "get_history_minute_time_data"
      [] o = "bars" -> "get_instrument_bars"
      [] o = "transaction" -> "get_transaction_data"
      [] o = "transactions" -> "get_history_transaction_data"
      [] OTHER -> "none"

\* the count ExtQuotes.bars hands to get_instrument_bars
ExtBarsCount(offset) == offset

\* the request of a single-call operation
ExtRequest(o, a) ==
    IF o = "bars" THEN Request(ExtApi(o), a.start, ExtBarsCount(a.offset))
    ELSE IF o \in {"instrument", "transaction", "transactions"}
         THEN Request(ExtApi(o), a.start, a.offset)
    ELSE Request(ExtApi(o), 0, 0)

\* a body that goes to the remote without validating its arguments
ExtBodyUnvalidated(o, a, reply) ==
    IF NoClient THEN [out |-> Raise("AttributeError"), reqs |-> <<>>]
    ELSE IF reply.raised THEN [out |-> reply, reqs |-> <<ExtRequest(o, a)>>]
    ELSE IF o = "instrument_count" THEN [out |-> reply, reqs |-> <<ExtRequest(o, a)>>]
    ELSE [out |-> Ok(to_data(reply.value)), reqs |-> <<ExtRequest(o, a)>>]

\* one execution of the body of a single-call operation, the remote
\* answering reply: the outcome and the requests issued
ExtBody(o, a, reply) ==
    LET v == IF o \in ExtValidated THEN validate(a.market, a.symbol)
             ELSE [raised |-> FALSE, market |-> 0, symbol |-> <<>>]
    IN  IF v.raised THEN [out |-> Raise("ValueError"), reqs |-> <<>>]
        ELSE IF NoClient THEN [out |-> Raise("AttributeError"), reqs |-> <<>>]
        ELSE IF o = "transactions" /\ ~IsDigits(a.date)
             THEN [out |-> Raise("ValueError"), reqs |-> <<>>]
        ELSE IF reply.raised THEN [out |-> reply, reqs |-> <<ExtRequest(o, a)>>]
        ELSE IF o = "instrument_count" THEN [out |-> reply, reqs |-> <<ExtRequest(o, a)>>]
        ELSE [out |-> Ok(to_data(reply.value)), reqs |-> <<ExtRequest(o, a)>>]


\* rows lo..hi of a remote directory, each row being its position
RowsFrom(lo, hi) ==
    [i \in 1..(IF hi >= lo THEN hi - lo + 1 ELSE 0) |-> [idx |-> lo + i - 1]]

\* the page loop of instruments(): result += get_instrument_info(page * 100, 100);
\* the call of page failAt raises (failKind "raise") or answers None, which
\* result += None turns into a TypeError
RECURSIVE InstrumentsLoop(_, _, _, _, _, _, _)
InstrumentsLoop(count, page, pages, failAt, failKind, rows, reqs) ==
    IF page >= pages THEN [out |-> Ok(to_data(ListVal(rows))), reqs |-> reqs]
    ELSE LET rq == Request("get_instrument_info", page * InstrumentPage, InstrumentPage)
         IN  IF page + 1 = failAt
             THEN [out |-> Raise(IF failKind = "raise" THEN "Transient" ELSE "TypeError"),
                   reqs |-> Append(reqs, rq)]
             ELSE InstrumentsLoop(count, page + 1, pages, failAt, failKind,
                      rows \o RowsFrom(page * InstrumentPage + 1,
                                       IF (page + 1) * InstrumentPage < count
                                       THEN (page + 1) * InstrumentPage ELSE count),
                      Append(reqs, rq))

\* the body of instruments() with the page count rounded down
InstrumentsBodyFloor(countReply, failAt, failKind) ==
    LET rq == Request("get_instrument_count", 0, 0) @@ [got |-> countReply]
    IN  IF NoClient THEN [out |-> Raise("AttributeError"), reqs |-> <<>>]
        ELSE IF countReply.raised THEN [out |-> countReply, reqs |-> <<rq>>]
        ELSE IF countReply.value.kind # "int"
             THEN [out |-> Raise("TypeError"), reqs |-> <<rq>>]
        ELSE LET count == countReply.value.n
                 pages == count \div InstrumentPage
             IN  InstrumentsLoop(count, 0, pages, failAt, failKind, <<>>, <<rq>>)

\* one execution of the body of instruments(); the count request is logged
\* with the answer it got
InstrumentsBody(countReply, failAt, failKind) ==
    LET rq == Request("get_instrument_count", 0, 0) @@ [got |-> countReply]
    IN  IF NoClient THEN [out |-> Raise("AttributeError"), reqs |-> <<>>]
        ELSE IF countReply.raised THEN [out |-> countReply, reqs |-> <<rq>>]
        ELSE IF countReply.value.kind # "int"
             THEN [out |-> Raise("TypeError"), reqs |-> <<rq>>]
        ELSE LET count == countReply.value.n
                 pages == (count + InstrumentPage - 1) \div InstrumentPage
             IN  InstrumentsLoop(count, 0, pages, failAt, failKind, <<>>, <<rq>>)

----------------------------------------------------------------------------
(* What the remote may answer *)

\* to a request for records, during attempt att
TableReplies(att) ==
    {Raise("Transient"), Ok(NoneVal), Ok(ListVal(<<>>)),
     Ok(ListVal(<<[att |-> att, v |-> "a"]>>))}

\* to a request for a count
CountReplies == {Raise("Transient"), Ok(NoneVal), Ok(IntVal(0)), Ok(IntVal(1)),
                 Ok(IntVal(InstrumentPage)), Ok(IntVal(InstrumentPage + 1))}

ExtReplies(o, att) == IF o = "instrument_count" THEN CountReplies ELSE TableReplies(att)

----------------------------------------------------------------------------
(* Arguments the caller may pass *)

\* the tuple (int(market), symbol) validate returns
PairVal(market, symbol) ==
    [kind |-> "pair", cols |-> FALSE, rows |-> <<[symbol |-> symbol]>>,
     n |-> market]

\* ExtQuotes.validate(market, symbol) called by itself
validate_call(market, symbol) ==
    LET v == validate(market, symbol)
    IN  IF v.raised THEN Raise("ValueError") ELSE Ok(PairVal(v.market, v.symbol))

Markets == {<<>>, <<"4", "7">>}
ValidateSymbols ==
    {<<"I", "F">>, <<"1", "#", "6">>, <<"#", "6">>, <<"4", "7", "#", "I", "F">>,
     <<"1", "#", "6", "#", "2">>, <<"#", "6", "#", "2">>, <<"1", "#">>, <<"I", "#", "6">>, <<>>}
Symbols == {<<"I", "F">>, <<"1", "#", "6">>}
Dates20170209 == <<"2", "0", "1", "7", "0", "2", "0", "9">>
Dates == {<<>>, Dates20170209}
Offsets == {1, BarsLimit, BarsLimit + 1}

ExtArgs(o) ==
    IF o \in {"markets", "instrument_count", "instruments"} THEN {[start |-> 0]}
    ELSE IF o = "instrument" THEN {[start |-> 0, offset |-> x] : x \in Offsets}
    ELSE IF o = "bars"
         THEN {[frequency |-> 9, market |-> m, symbol |-> s, start |-> 0, offset |-> x] :
                  m \in Markets, s \in Symbols, x \in Offsets}
    ELSE IF o = "transactions"
         THEN {[market |-> m, symbol |-> s, date |-> d, start |-> 0, offset |-> BarsLimit] :
                  m \in Markets, s \in Symbols, d \in Dates}
    ELSE {[market |-> m, symbol |-> s, start |-> 0, offset |-> BarsLimit] :
             m \in Markets, s \in Symbols}

----------------------------------------------------------------------------
(* The state after construction *)

NoRet == [raised |-> FALSE, exc |-> "", value |-> NoneVal]

\* what TdxHq_API(...) / TdxExHq_API(...) followed by connect(...) can do:
\* connect and return, give up and return False (raise_exception=False),
\* raise before or after it made the socket object, or the client's own
\* constructor raises (self.client stays the class attribute None)
ConnectOutcomes ==
    {"ok", "returned_false", "raised_before_socket", "raised_after_socket",
     "client_raised"}

ConnectRaised(c) ==
    c \in {"raised_before_socket", "raised_after_socket", "client_raised"}

\* the transport the constructor leaves behind
construct_transport(c) ==
    CASE c = "ok" -> "open"
      [] c = "returned_false" -> "unconnected"
      [] c = "raised_after_socket" -> "unconnected"
      [] c = "raised_before_socket" -> "none"
      [] c = "client_raised" -> "noclient"

\* ExtQuotes.__init__: except Exception logs and goes on
ExtInit(c) == Ok(NoneVal)

\* StdQuotes.__init__: the two calls are not in a try block
StdInit(c) == IF ConnectRaised(c) THEN Raise("ConnectError") ELSE Ok(NoneVal)

Init ==
    /\ facade \in {"std", "ext"}
    /\ transport = "noclient"
    /\ pc = "new"
    /\ op = "none"
    /\ args = [start |-> 0]
    /\ attempt = 0
    /\ hist = <<>>
    /\ waited = 0
    /\ log = <<>>
    /\ ret = NoRet

----------------------------------------------------------------------------
(* The retry loop of a decorated ExtQuotes operation *)

\* the caller invokes o(**a): tenacity starts with attempt 1
ExtInvoke(o, a) ==
    /\ pc = "idle"
    /\ facade = "ext"
    /\ pc' = "attempt"
    /\ op' = o
    /\ args' = a
    /\ attempt' = 1
    /\ hist' = <<>>
    /\ log' = <<>>
    /\ ret' = NoRet
    /\ UNCHANGED <<facade, transport, waited>>

\* what tenacity does with the outcome o of the attempt just made
AfterAttempt(o) ==
    IF ~RetryPredicate(o)
    THEN pc' = "done" /\ ret' = o /\ waited' = 0
    ELSE IF stop_after_attempt(attempt)
    THEN pc' = "done" /\ ret' = OnExhausted(o) /\ waited' = 0
    ELSE pc' = "wait" /\ ret' = ret /\ waited' \in WaitMin..WaitMax

\* one execution of the body of a single-call operation
ExtAttempt ==
    /\ pc = "attempt"
    /\ op \in ExtOps \ {"instruments"}
    /\ \E reply \in ExtReplies(op, attempt) :
          LET b == ExtBody(op, args, reply)
          IN  /\ hist' = Append(hist, b.out)
              /\ log' = log \o b.reqs
              /\ AfterAttempt(b.out)
    /\ UNCHANGED <<facade, transport, op, args, attempt>>

\* one execution of the body of instruments()
InstrumentsAttempt ==
    /\ pc = "attempt"
    /\ op = "instruments"
    /\ \E countReply \in CountReplies, failAt \in 0..2, failKind \in {"raise", "none"} :
          LET b == InstrumentsBody(countReply, failAt, failKind)
          IN  /\ hist' = Append(hist, b.out)
              /\ log' = log \o b.reqs
              /\ AfterAttempt(b.out)
    /\ UNCHANGED <<facade, transport, op, args, attempt>>

\* the back-off is over: the next attempt starts
ExtSleep ==
    /\ pc = "wait"
    /\ pc' = "attempt"
    /\ attempt' = attempt + 1
    /\ waited' = 0
    /\ UNCHANGED <<facade, transport, op, args, hist, log, ret>>

----------------------------------------------------------------------------
(* BaseQuotes operations *)

\* StdQuotes(...) / ExtQuotes(...): the constructor runs once
Construct(c) ==
    /\ pc = "new"
    /\ LET r == IF facade = "ext" THEN ExtInit(c) ELSE StdInit(c)
       IN  /\ ret' = r
           /\ pc' = IF r.raised THEN "gone" ELSE "done"
    /\ transport' = construct_transport(c)
    /\ op' = "__init__"
    /\ args' = [connect |-> c]
    /\ attempt' = 0
    /\ hist' = <<>>
    /\ log' = IF c = "client_raised" THEN <<>> ELSE <<Request("connect", 0, 0)>>
    /\ UNCHANGED <<facade, waited>>

\* ExtQuotes.validate(market, symbol), a static method
Validate(market, symbol) ==
    /\ pc = "idle"
    /\ facade = "ext"
    /\ ret' = validate_call(market, symbol)
    /\ pc' = "done"
    /\ op' = "validate"
    /\ args' = [market |-> market, symbol |-> symbol]
    /\ attempt' = 0
    /\ hist' = <<>>
    /\ log' = <<>>
    /\ UNCHANGED <<facade, transport, waited>>

\* close()
Close ==
    /\ pc = "idle"
    /\ LET c == close_call(transport)
       IN  /\ transport' = c.transport
           /\ log' = c.reqs
           /\ ret' = c.out
    /\ pc' = "done"
    /\ op' = "close"
    /\ args' = [before |-> transport]
    /\ attempt' = 0
    /\ hist' = <<>>
    /\ UNCHANGED <<facade, waited>>

\* __del__(): close(), after which there is no object
Del ==
    /\ pc = "idle"
    /\ LET c == close_call(transport)
       IN  /\ transport' = c.transport
           /\ log' = c.reqs
           /\ ret' = c.out
    /\ pc' = "gone"
    /\ op' = "__del__"
    /\ args' = [before |-> transport]
    /\ attempt' = 0
    /\ hist' = <<>>
    /\ UNCHANGED <<facade, waited>>

\* reconnect()
Reconnect ==
    /\ pc = "idle"
    /\ LET r == IF NoClient THEN Raise("AttributeError") ELSE reconnect_outcome(closed)
           called == closed /\ ~r.raised
       IN  /\ ret' = r
           /\ transport' = IF called THEN "open" ELSE transport
           /\ log' = IF called THEN <<Request("connect", 0, 0)>> ELSE <<>>
    /\ pc' = "done"
    /\ op' = "reconnect"
    /\ args' = [before |-> transport]
    /\ attempt' = 0
    /\ hist' = <<>>
    /\ UNCHANGED <<facade, waited>>

\* the caller has its answer and may invoke the next operation
Return ==
    /\ pc = "done"
    /\ pc' = "idle"
    /\ op' = "none"
    /\ args' = [start |-> 0]
    /\ attempt' = 0
    /\ hist' = <<>>
    /\ log' = <<>>
    /\ ret' = NoRet
    /\ UNCHANGED <<facade, transport, waited>>


----------------------------------------------------------------------------
(* StdQuotes: bars, index_bars, index *)

\* what the remote answered, without the rows: raised or not, the exception,
\* and whether the answer carried anything
Answer(reply) ==
    [raised |-> reply.raised, exc |-> reply.exc,
     empty |-> ~reply.raised /\ (reply.value.kind = "none" \/
                                 (reply.value.kind = "list" /\ reply.value.rows = <<>>) \/
                                 (reply.value.kind = "int" /\ reply.value.n = 0))]

StdBarsOps == {"bars", "index_bars", "index"}

\* offset = (offset, 800)[offset > 800]
StdBarsCount(offset) == IF offset > BarsLimit THEN BarsLimit ELSE offset

StdBarsApi(o) == IF o = "bars" THEN "get_security_bars" ELSE "get_index_bars"

\* bars / index_bars / index: one remote call, no retry
StdBars(o, a, reply) ==
    /\ pc = "idle"
    /\ facade = "std"
    /\ pc' = "done"
    /\ op' = o
    /\ args' = a
    /\ attempt' = 0
    /\ hist' = <<>>
    /\ log' = <<Request(StdBarsApi(o), a.start, StdBarsCount(a.offset))>>
    /\ ret' = IF reply.raised THEN reply ELSE Ok(to_data(reply.value))
    /\ UNCHANGED <<facade, transport, waited>>

----------------------------------------------------------------------------
(* StdQuotes: quotes *)

\* a str argument
StrVal(y) == [kind |-> "str", cols |-> FALSE, rows |-> y, n |-> 0]

\* Python truthiness of an argument: None, '' and an empty sequence are falsy
Truthy(v) ==
    CASE v.kind = "none" -> FALSE
      [] v.kind = "int" -> v.n # 0
      [] OTHER -> v.rows # <<>>

\* mootdx.utils.get_stock_market: the market is derived from the symbol's
\* leading digit
get_stock_market(y) ==
    IF y # <<>> /\ y[1] = "6" THEN MARKET_SH
    ELSE IF y # <<>> /\ y[1] \in {"0", "3"} THEN MARKET_SZ
    ELSE 2

\* mootdx.utils.get_stock_markets: a (market, symbol) pair per symbol
get_stock_markets(ys) == [i \in 1..Len(ys) |-> <<get_stock_market(ys[i]), ys[i]>>]

\* quotes(symbol) without the test of the symbol
quotesUnguarded(symbol, reply) ==
    LET ys == IF symbol.kind = "str" THEN <<symbol.rows>> ELSE symbol.rows
        rq == Request("get_security_quotes", 0, Len(get_stock_markets(ys)))
    IN  IF reply.raised
        THEN [out |-> IF reply.exc = "ValidationException" THEN Ok(to_data(NoneVal)) ELSE reply,
              reqs |-> <<rq>>]
        ELSE [out |-> Ok(to_data(reply.value)), reqs |-> <<rq>>]

\* quotes(symbol): the outcome and the requests issued
quotes(symbol, reply) ==
    IF ~Truthy(symbol) THEN [out |-> Ok(to_data(NoneVal)), reqs |-> <<>>]
    ELSE LET ys == IF symbol.kind = "str" THEN <<symbol.rows>> ELSE symbol.rows
             rq == Request("get_security_quotes", 0, Len(get_stock_markets(ys)))
         IN  IF reply.raised
             THEN [out |-> IF reply.exc = "ValidationException"
                           THEN Ok(to_data(NoneVal)) ELSE reply,
                   reqs |-> <<rq>>]
             ELSE [out |-> Ok(to_data(reply.value)), reqs |-> <<rq>>]

QuotesSymbols ==
    {NoneVal, StrVal(<<>>), ListVal(<<>>), StrVal(<<"6">>), ListVal(<< <<"6">>, <<"0">> >>)}

QuotesReplies == TableReplies(0) \cup {Raise("ValidationException")}

Quotes(symbol, reply) ==
    /\ pc = "idle"
    /\ facade = "std"
    /\ LET r == quotes(symbol, reply)
       IN  ret' = r.out /\ log' = r.reqs
    /\ pc' = "done"
    /\ op' = "quotes"
    /\ args' = [symbols |-> symbol, answer |-> Answer(reply)]
    /\ attempt' = 0
    /\ hist' = <<>>
    /\ UNCHANGED <<facade, transport, waited>>

----------------------------------------------------------------------------
(* StdQuotes: minute, minutes, transaction, transactions, xdxr, finance *)

StdSingleOps == {"minute", "minutes", "transaction", "transactions", "xdxr", "finance"}

\* the operations that accept the SH and SZ markets only
StdShSzOnly == {"minute", "minutes", "transactions"}

StdSingleApi(o) ==
    CASE o \in {"minute", "minutes"} -> "get_history_minute_time_data"
      [] o = "transaction" -> "get_transaction_data"
      [] o = "transactions" -> "get_history_transaction_data"
      [] o = "xdxr" -> "get_xdxr_info"
      [] o = "finance" -> "get_finance_info"

\* a body that turns an exception of the remote call into an empty table
std_singleSwallow(o, a, reply) ==
    IF o \in StdShSzOnly /\ get_stock_market(a.symbol) \notin {0, 1}
    THEN [out |-> Raise("MootdxValidationException"), reqs |-> <<>>]
    ELSE IF o = "transactions" /\ ~IsDigits(a.date)
    THEN [out |-> Raise("ValueError"), reqs |-> <<>>]
    ELSE [out |-> IF reply.raised THEN Ok(to_data(NoneVal)) ELSE Ok(to_data(reply.value)),
          reqs |-> <<Request(StdSingleApi(o), a.start, a.offset)>>]

\* the body of a single-call operation: resolve the market, one remote call,
\* to_data of its result
std_single(o, a, reply) ==
    IF o \in StdShSzOnly /\ get_stock_market(a.symbol) \notin {0, 1}
    THEN [out |-> Raise("MootdxValidationException"), reqs |-> <<>>]
    ELSE IF o = "transactions" /\ ~IsDigits(a.date)
    THEN [out |-> Raise("ValueError"), reqs |-> <<>>]
    ELSE [out |-> IF reply.raised THEN reply ELSE Ok(to_data(reply.value)),
          reqs |-> <<Request(StdSingleApi(o), a.start, a.offset)>>]

StdSymbols == {<<"6">>, <<"I", "F">>}

StdSingleArgs(o) ==
    {[symbol |-> y, start |-> 0, offset |-> 1, date |-> d] :
        y \in StdSymbols,
        d \in (IF o = "transactions" THEN Dates ELSE {Dates20170209})}

StdSingle(o, a, reply) ==
    /\ pc = "idle"
    /\ facade = "std"
    /\ LET r == std_single(o, a, reply)
       IN  ret' = r.out /\ log' = r.reqs
    /\ pc' = "done"
    /\ op' = o
    /\ args' = [symbol |-> a.symbol, start |-> a.start, offset |-> a.offset,
                date |-> a.date, answer |-> Answer(reply)]
    /\ attempt' = 0
    /\ hist' = <<>>
    /\ UNCHANGED <<facade, transport, waited>>

----------------------------------------------------------------------------
(* StdQuotes: stock_count, stocks, stock_all *)

\* the rows lo..hi of the list of a market, as the remote holds them
MarketRows(market, lo, hi) ==
    [i \in 1..(IF hi >= lo THEN hi - lo + 1 ELSE 0) |->
        [market |-> market, idx |-> lo + i - 1]]

\* get_security_list(market, start): at most one page of the count rows
ListReply(market, count, start) ==
    Ok(ListVal(MarketRows(market, start + 1,
                          IF start + ListPage < count THEN start + ListPage ELSE count)))

\* pandas.concat([a, b], ignore_index=True): None is dropped, and nothing
\* left to concatenate is a ValueError
concat(a, b) ==
    IF a.kind = "none" /\ b.kind = "none" THEN Raise("ValueError")
    ELSE IF a.kind = "none" THEN Ok(b)
    ELSE IF b.kind = "none" THEN Ok(a)
    ELSE Ok([kind |-> "table", cols |-> a.cols \/ b.cols, rows |-> a.rows \o b.rows, n |-> 0])

\* stock_count(market): the outcome and the requests issued
stock_count(market, countReply) ==
    IF market \notin {0, 1, 2} THEN [out |-> Raise("MootdxValidationException"), reqs |-> <<>>]
    ELSE [out |-> countReply, reqs |-> <<Request("get_security_count", 0, 0)>>]

\* the loop of stocks() keeping only the page just fetched
RECURSIVE StocksLoopOverwrite(_, _, _, _, _)
StocksLoopOverwrite(market, counts, start, acc, reqs) ==
    IF start >= counts THEN [out |-> Ok(acc), reqs |-> reqs]
    ELSE LET page == to_data(ListReply(market, counts, start).value)
             rq == Request("get_security_list", start, ListPage)
         IN  StocksLoopOverwrite(market, counts, start + ListPage, page, Append(reqs, rq))

\* the loop of stocks(): for start in range(0, counts, 1000)
RECURSIVE StocksLoop(_, _, _, _, _)
StocksLoop(market, counts, start, acc, reqs) ==
    IF start >= counts THEN [out |-> Ok(acc), reqs |-> reqs]
    ELSE LET page == to_data(ListReply(market, counts, start).value)
             rq == Request("get_security_list", start, ListPage)
             next == IF start > 1 THEN concat(acc, page) ELSE Ok(page)
         IN  IF next.raised THEN [out |-> next, reqs |-> Append(reqs, rq)]
             ELSE StocksLoop(market, counts, start + ListPage, next.value, Append(reqs, rq))

\* stocks(market) without its own check of the market
stocksUnchecked(market, countReply) ==
    LET c == stock_count(market, countReply)
    IN  IF c.out.raised THEN c
        ELSE IF c.out.value.kind # "int" THEN [out |-> Raise("TypeError"), reqs |-> c.reqs]
        ELSE IF c.out.value.n > 0
             THEN StocksLoop(market, c.out.value.n, 0, NoneVal, c.reqs)
        ELSE [out |-> Ok(NoneVal), reqs |-> c.reqs]

\* stocks(market)
stocks(market, countReply) ==
    IF market \notin {0, 1} THEN [out |-> Raise("MootdxValidationException"), reqs |-> <<>>]
    ELSE LET c == stock_count(market, countReply)
         IN  IF c.out.raised THEN c
             ELSE IF c.out.value.kind # "int" THEN [out |-> Raise("TypeError"), reqs |-> c.reqs]
             ELSE IF c.out.value.n > 0
                  THEN StocksLoop(market, c.out.value.n, 0, NoneVal, c.reqs)
             ELSE [out |-> Ok(NoneVal), reqs |-> c.reqs]

\* the markets of stock_all in the other order
StockAllMarketsReversed == <<1, 0>>

\* for m in [0, 1]
StockAllMarkets == <<0, 1>>

\* the loop of stock_all(): stocks = pandas.concat([stocks, self.stocks(m)])
RECURSIVE StockAllLoop(_, _, _, _)
StockAllLoop(i, countReplies, acc, reqs) ==
    IF i > Len(StockAllMarkets) THEN [out |-> Ok(acc), reqs |-> reqs]
    ELSE LET m == StockAllMarkets[i]
             s == stocks(m, countReplies[m])
         IN  IF s.out.raised THEN [out |-> s.out, reqs |-> reqs \o s.reqs]
             ELSE LET next == concat(acc, s.out.value)
                  IN  IF next.raised THEN [out |-> next, reqs |-> reqs \o s.reqs]
                      ELSE StockAllLoop(i + 1, countReplies, next.value, reqs \o s.reqs)

\* stock_all(), the remote reporting countReplies[m] for market m
stock_all(countReplies) == StockAllLoop(1, countReplies, NoneVal, <<>>)

\* the counts a market may report
StockCounts == {0, 1} \cup {k * ListPage + d : k \in 1..MaxPages, d \in {0, 1}}

StockCountReplies == {Raise("Transient"), Ok(NoneVal)} \cup {Ok(IntVal(c)) : c \in StockCounts}

StdMarkets == {MARKET_SZ, MARKET_SH, 2, 99}

StockCount(market, countReply) ==
    /\ pc = "idle"
    /\ facade = "std"
    /\ LET r == stock_count(market, countReply)
       IN  ret' = r.out /\ log' = r.reqs
    /\ pc' = "done"
    /\ op' = "stock_count"
    /\ args' = [market |-> market, answer |-> Answer(countReply)]
    /\ attempt' = 0
    /\ hist' = <<>>
    /\ UNCHANGED <<facade, transport, waited>>

Stocks(market, countReply) ==
    /\ pc = "idle"
    /\ facade = "std"
    /\ LET r == stocks(market, countReply)
       IN  ret' = r.out /\ log' = r.reqs
    /\ pc' = "done"
    /\ op' = "stocks"
    /\ args' = [market |-> market, count |-> countReply]
    /\ attempt' = 0
    /\ hist' = <<>>
    /\ UNCHANGED <<facade, transport, waited>>

StockAll(countReplies) ==
    /\ pc = "idle"
    /\ facade = "std"
    /\ LET r == stock_all(countReplies)
       IN  ret' = r.out /\ log' = r.reqs
    /\ pc' = "done"
    /\ op' = "stock_all"
    /\ args' = [counts |-> countReplies]
    /\ attempt' = 0
    /\ hist' = <<>>
    /\ UNCHANGED <<facade, transport, waited>>


----------------------------------------------------------------------------
(* Calendar dates: datetime and pd.to_datetime *)

\* days since 1970-01-01 of the civil date y-m-d
DaysFromCivil(y, m, d) ==
    LET yy == IF m <= 2 THEN y - 1 ELSE y
        era == yy \div 400
        yoe == yy - era * 400
        mp == IF m > 2 THEN m - 3 ELSE m + 9
        doy == (153 * mp + 2) \div 5 + d - 1
        doe == yoe * 365 + yoe \div 4 - yoe \div 100 + doy
    IN  era * 146097 + doe - 719468

\* the civil date of a day number
CivilFromDays(z) ==
    LET zz == z + 719468
        era == zz \div 146097
        doe == zz - era * 146097
        yoe == (doe - doe \div 1460 + doe \div 36524 - doe \div 146096) \div 365
        doy == doe - (365 * yoe + yoe \div 4 - yoe \div 100)
        mp == (5 * doy + 2) \div 153
        d == doy - (153 * mp + 2) \div 5 + 1
        m == IF mp < 10 THEN mp + 3 ELSE mp - 9
        y == yoe + era * 400 + (IF m <= 2 THEN 1 ELSE 0)
    IN  [y |-> y, m |-> m, d |-> d]

DigitChar(k) ==
    CASE k = 0 -> "0" [] k = 1 -> "1" [] k = 2 -> "2" [] k = 3 -> "3" [] k = 4 -> "4"
      [] k = 5 -> "5" [] k = 6 -> "6" [] k = 7 -> "7" [] k = 8 -> "8" [] k = 9 -> "9"

\* "%0<w>d" % n
RECURSIVE Pad(_, _)
Pad(n, w) == IF w = 0 THEN <<>> ELSE Append(Pad(n \div 10, w - 1), DigitChar(n % 10))

\* the date of a day number written "YYYY-MM-DD" (fmt "iso") or "YYYYMMDD"
FormatDate(z, fmt) ==
    LET c == CivilFromDays(z)
    IN  IF fmt = "iso"
        THEN Pad(c.y, 4) \o <<"-">> \o Pad(c.m, 2) \o <<"-">> \o Pad(c.d, 2)
        ELSE Pad(c.y, 4) \o Pad(c.m, 2) \o Pad(c.d, 2)

\* pd.to_datetime(s) of either form, as a day number
ParseDate(s) ==
    IF Len(s) = 10
    THEN DaysFromCivil(StrToInt(SubSeq(s, 1, 4)), StrToInt(SubSeq(s, 6, 7)),
                       StrToInt(SubSeq(s, 9, 10)))
    ELSE DaysFromCivil(StrToInt(SubSeq(s, 1, 4)), StrToInt(SubSeq(s, 5, 6)),
                       StrToInt(SubSeq(s, 7, 8)))

\* the datetime field of a daily bar as tdxpy writes it: "%d-%02d-%02d %02d:%02d"
BarDatetime(z) == FormatDate(z, "iso") \o <<" ", "1", "5", ":", "0", "0">>

----------------------------------------------------------------------------
(* StdQuotes.get_k_data *)

\* (pd.to_datetime(date) - today).days, then (abs(x), 0)[x >= 0]
DaysBack(dateStr, today) ==
    LET x == ParseDate(dateStr) - today
    IN  IF x >= 0 THEN 0 ELSE 0 - x

\* the days back of the end date with no discount for non-trading days
FirstOffsetUndiscounted(end_date, today) ==
    DaysBack(end_date, today)

\* first -= int(first / 2.8)
FirstOffset(end_date, today) ==
    LET first == DaysBack(end_date, today)
    IN  first - (first * 5) \div 14

\* last -= int(last / 3.5)
LastOffset(start_date, today) ==
    LET last == DaysBack(start_date, today)
    IN  last - (last * 2) \div 7

\* the page count rounded down instead of up
PageCountFloor(first, last) ==
    IF last - first <= 0 THEN 0 - ((first - last) \div BarsLimit)
    ELSE (last - first) \div BarsLimit

\* math.ceil((last - first) / 800)
PageCount(first, last) ==
    IF last - first <= 0 THEN 0 - ((first - last) \div BarsLimit)
    ELSE (last - first + BarsLimit - 1) \div BarsLimit

\* the row of the result made from one bar: date = str(datetime)[0:10]
BarRow(datetime) == [date |-> SubSeq(datetime, 1, 10)]

\* self.client.to_df(data) for one page: a list of bars gives one row per
\* bar; None gives the single row {'value': None}, whose datetime is NaN
PageRows(reply) ==
    IF reply.value.kind = "list"
    THEN [i \in 1..Len(reply.value.rows) |-> BarRow(BarDatetime(reply.value.rows[i]))]
    ELSE <<[date |-> <<"n", "a", "n">>]>>

PageHasDatetime(reply) == reply.value.kind = "list" /\ reply.value.rows # <<>>

\* data.loc[(data.date >= start_date) & (data.date < end_date)]
RECURSIVE FilterRows(_, _, _)
FilterRows(rows, start_date, end_date) ==
    IF rows = <<>> THEN <<>>
    ELSE LET r == Head(rows)
             rest == FilterRows(Tail(rows), start_date, end_date)
         IN  IF StrLeq(start_date, r.date) /\ StrLess(r.date, end_date)
             THEN <<r>> \o rest ELSE rest

\* insert r after the rows that are not greater
RECURSIVE InsertRow(_, _)
InsertRow(sorted, r) ==
    IF sorted = <<>> THEN <<r>>
    ELSE IF StrLess(r.date, Head(sorted).date) THEN <<r>> \o sorted
    ELSE <<Head(sorted)>> \o InsertRow(Tail(sorted), r)

\* data.sort_index()
RECURSIVE SortRows(_)
SortRows(rows) ==
    IF rows = <<>> THEN <<>>
    ELSE InsertRow(SortRows(SubSeq(rows, 1, Len(rows) - 1)), rows[Len(rows)])

\* the fetch loop: for i in range(pages), replies[i + 1] answering request i;
\* a reply that is an exception ends the operation
\* the K-line category of get_security_bars(9, ...): daily bars
DailyCategory == 9

RECURSIVE KFetch(_, _, _, _, _, _, _)
KFetch(i, pages, first, replies, rows, hasDt, reqs) ==
    IF i >= pages THEN [out |-> Ok(ListVal(rows)), hasDt |-> hasDt, reqs |-> reqs]
    ELSE LET rq == Request("get_security_bars", first + i * BarsLimit, BarsLimit)
                      @@ [category |-> DailyCategory]
             reply == replies[i + 1]
         IN  IF reply.raised
             THEN [out |-> reply, hasDt |-> hasDt, reqs |-> Append(reqs, rq)]
             ELSE KFetch(i + 1, pages, first, replies, rows \o PageRows(reply),
                         hasDt \/ PageHasDatetime(reply), Append(reqs, rq))

\* get_k_data(code, start_date, end_date)
get_k_data(start_date, end_date, today, replies) ==
    LET first == FirstOffset(end_date, today)
        last == LastOffset(start_date, today)
        pages == PageCount(first, last)
        f == KFetch(0, pages, first, replies, <<>>, FALSE, <<>>)
    IN  IF f.out.raised THEN [out |-> f.out, reqs |-> f.reqs]
        ELSE IF pages <= 0 THEN [out |-> Raise("ValueError"), reqs |-> f.reqs]
        ELSE IF ~f.hasDt THEN [out |-> Raise("KeyError"), reqs |-> f.reqs]
        ELSE [out |-> Ok([kind |-> "table", cols |-> TRUE, n |-> 0,
                          rows |-> SortRows(FilterRows(f.out.value.rows,
                                                       start_date, end_date))]),
              reqs |-> f.reqs]

\* datetime.now().date()
Today == DaysFromCivil(2023, 6, 15)

\* the dates a caller may ask for, as days before today
DateChoices == {Today + 5, Today, Today - 156, Today - 166, Today - 1200}

DateFormats == {"iso", "compact"}

\* the days the remote has bars for
BarDays == {Today - 167, Today - 160, Today - 151}

\* what the remote may answer to one request for a page of bars
BarPageReplies ==
    {Raise("Transient"), Ok(NoneVal), Ok(ListVal(<<>>))}
    \cup {Ok(ListVal(<<d>>)) : d \in BarDays}
    \cup {Ok(ListVal(<<d, e>>)) : d, e \in BarDays}

\* the replies to pages requests: the remote chooses the first MaxBarPages
BarReplies(pages) ==
    LET free == IF pages < 0 THEN 0 ELSE IF pages < MaxBarPages THEN pages ELSE MaxBarPages
    IN  {[i \in 1..pages |-> IF i <= free THEN r[i] ELSE Ok(ListVal(<<>>))] :
            r \in [1..free -> BarPageReplies]}

KData(start_date, end_date) ==
    /\ pc = "idle"
    /\ facade = "std"
    /\ LET pages == PageCount(FirstOffset(end_date, Today), LastOffset(start_date, Today))
       IN  \E replies \in BarReplies(pages) :
              LET r == get_k_data(start_date, end_date, Today, replies)
              IN  /\ ret' = r.out
                  /\ log' = r.reqs
                  /\ args' = [start_date |-> start_date, end_date |-> end_date,
                              today |-> Today, replies |-> replies]
    /\ pc' = "done"
    /\ op' = "get_k_data"
    /\ attempt' = 0
    /\ hist' = <<>>
    /\ UNCHANGED <<facade, transport, waited>>

----------------------------------------------------------------------------
(* The specification *)

Next ==
    \/ \E c \in ConnectOutcomes : Construct(c)
    \/ Del
    \/ \E m \in Markets, y \in ValidateSymbols : Validate(m, y)
    \/ \E o \in ExtOps : \E a \in ExtArgs(o) : ExtInvoke(o, a)
    \/ ExtAttempt
    \/ InstrumentsAttempt
    \/ ExtSleep
    \/ Close
    \/ Reconnect
    \/ Return
    \/ \E o \in StdBarsOps, x \in Offsets, reply \in TableReplies(0) :
          StdBars(o, [start |-> 0, offset |-> x, answer |-> Answer(reply)], reply)
    \/ \E o \in StdSingleOps, reply \in TableReplies(0) :
          \E a \in StdSingleArgs(o) : StdSingle(o, a, reply)
    \/ \E y \in QuotesSymbols, reply \in QuotesReplies : Quotes(y, reply)
    \/ \E m \in StdMarkets, c \in StockCountReplies : StockCount(m, c)
    \/ \E m \in StdMarkets, c \in StockCountReplies : Stocks(m, c)
    \/ \E cs \in [{MARKET_SZ, MARKET_SH} -> StockCountReplies] : StockAll(cs)
    \/ \E ds, de \in DateChoices, fs, fe \in DateFormats :
          KData(FormatDate(ds, fs), FormatDate(de, fe))

Spec == Init /\ [][Next]_vars


\* the retry loop is synchronous code: a body that was started returns or
\* raises, and a back-off that was started ends
LiveSpec ==
    /\ Spec
    /\ WF_vars(ExtAttempt)
    /\ WF_vars(InstrumentsAttempt)
    /\ WF_vars(ExtSleep)

----------------------------------------------------------------------------
(* Properties *)

\* a result the retry policy calls empty: an empty table, None or a falsy scalar
IsEmptyResult(v) ==
    \/ v.kind = "none"
    \/ v.kind = "table" /\ v.rows = <<>>
    \/ v.kind = "int" /\ v.n = 0

Failed(o) == o.raised \/ IsEmptyResult(o.value)

ExtCall == facade = "ext" /\ op \in ExtOps

\* C1: a retry-wrapped ExtQuotes operation executes its body at most 3 times,
\* whatever the remote answers, and it terminates: the attempt number never
\* exceeds 3, the third execution ends the call, and a started call is done
\* eventually.
C1_AtMostThreeAttempts ==
    /\ [](ExtCall => /\ attempt <= 3
                     /\ Len(hist) <= 3
                     /\ (Len(hist) = 3 => pc = "done"))
    /\ ((ExtCall /\ pc = "attempt") ~> (pc = "done"))

C1_Witness ==
    /\ ExtCall /\ pc = "done" /\ Len(hist) = 3
    /\ hist[1].raised /\ ~hist[2].raised /\ hist[3].raised

\* C2: when the attempt just made returns a non-empty result after attempts
\* that all raised or returned empty, the call is over and hands exactly that
\* result to the caller.
C2_FirstSuccessReturned ==
    (ExtCall /\ Len(hist) >= 1 /\ ~Failed(hist[Len(hist)]))
        => /\ pc = "done"
           /\ ret = hist[Len(hist)]
           /\ \A j \in 1..(Len(hist) - 1) : Failed(hist[j])

C2_Witness ==
    /\ ExtCall /\ pc = "done" /\ Len(hist) = 3
    /\ hist[1].raised /\ hist[2].raised /\ ~Failed(hist[3])
    /\ ret = hist[3]

\* C3: a call whose body returned an empty result on all 3 attempts returns
\* the result of the 3rd attempt and does not raise.
C3_EmptyThriceReturnsLast ==
    (/\ ExtCall /\ pc = "done" /\ Len(hist) = 3
     /\ \A j \in 1..3 : ~hist[j].raised /\ IsEmptyResult(hist[j].value))
        => ~ret.raised /\ ret = hist[3]

C3_Witness ==
    /\ ExtCall /\ pc = "done" /\ op = "instrument_count" /\ Len(hist) = 3
    /\ \A j \in 1..3 : ~hist[j].raised /\ IsEmptyResult(hist[j].value)
    /\ hist[2].value.kind = "none" /\ hist[3].value.kind = "int"
    /\ ret = hist[3]

\* C4: a call that ended with every attempt raising made 3 attempts, does
\* not raise to the caller and returns an empty or None result.
C4_RaiseThriceDegrades ==
    (/\ ExtCall /\ pc = "done"
     /\ \A j \in 1..Len(hist) : hist[j].raised)
        => /\ Len(hist) = 3
           /\ ~ret.raised
           /\ IsEmptyResult(ret.value)

C4_Witness ==
    /\ ExtCall /\ pc = "done" /\ op = "transaction" /\ Len(hist) = 3
    /\ \A j \in 1..3 : hist[j].raised /\ hist[j].exc = "Transient"
    /\ ~ret.raised

BarsStyle == op \in {"bars", "index_bars", "index"}

\* C5: every bars-style operation of either facade asked for more than 800
\* bars passes the count 800 to the remote and raises no error of its own.
C5_OversizeClampedEverywhere ==
    (BarsStyle /\ args.offset > 800)
        => \A i \in 1..Len(log) : log[i].count = 800

\* the rows stocks(m) returned inside the stock_all() just finished
SubCallRows(m) ==
    LET v == stocks(m, args.counts[m]).out.value
    IN  IF v.kind = "table" THEN v.rows ELSE <<>>

StockAllReturned == op = "stock_all" /\ pc = "done" /\ ~ret.raised

\* C6 as stated: stock_all() returns the rows of SH first, then those of SZ.
C6_ShFirst ==
    StockAllReturned => ret.value.rows = SubCallRows(MARKET_SH) \o SubCallRows(MARKET_SZ)

\* C6: whenever stock_all() returns, its table holds the rows of market 0
\* (SZ) first, followed by the rows of market 1 (SH), each block in the row
\* order of its stocks() sub-call.
C6_SzFirst ==
    StockAllReturned => ret.value.rows = SubCallRows(MARKET_SZ) \o SubCallRows(MARKET_SH)

C6_Witness ==
    /\ StockAllReturned
    /\ Len(SubCallRows(MARKET_SZ)) = 1
    /\ Len(SubCallRows(MARKET_SH)) = ListPage + 1
    /\ ret.value.rows[1] = [market |-> MARKET_SZ, idx |-> 1]
    /\ ret.value.rows[2] = [market |-> MARKET_SH, idx |-> 1]

\* C7: for every pair of counts the remote reports, zero included,
\* stock_all() returns without error a table with count(SH) + count(SZ) rows.
C7_RowCountIsSum ==
    (/\ op = "stock_all" /\ pc = "done"
     /\ \A m \in {MARKET_SZ, MARKET_SH} :
           ~args.counts[m].raised /\ args.counts[m].value.kind = "int")
        => /\ ~ret.raised
           /\ ret.value.kind = "table"
           /\ Len(ret.value.rows) =
                 args.counts[MARKET_SH].value.n + args.counts[MARKET_SZ].value.n

\* C8: no remote call is ever issued on a dead transport (an operation
\* invoked on a closed session reconnects before its remote call).
C8_NoCallOnDeadTransport ==
    \A i \in 1..Len(log) : log[i].api \notin {"connect", "close"} => log[i].alive

KDataDone == op = "get_k_data" /\ pc = "done"

KPages ==
    PageCount(FirstOffset(args.end_date, args.today), LastOffset(args.start_date, args.today))

\* C9: when the page count of get_k_data is zero or negative no bar request
\* is sent and the operation returns an empty table instead of raising.
C9_NoPagesGivesEmptyTable ==
    (KDataDone /\ KPages <= 0)
        => /\ log = <<>>
           /\ ~ret.raised
           /\ ret.value.kind = "table"
           /\ ret.value.rows = <<>>

\* no two bars of the remote's answers carry the same date
RemoteDatesDistinct ==
    LET days == [i \in 1..Len(args.replies) |->
                    IF args.replies[i].value.kind = "list"
                    THEN args.replies[i].value.rows ELSE <<>>]
    IN  \A i, j \in 1..Len(days) : \A k \in 1..Len(days[i]), l \in 1..Len(days[j]) :
           (days[i][k] = days[j][l]) => (i = j /\ k = l)

\* C10: for startDate < endDate every row of the result of get_k_data lies in
\* [startDate, endDate) as a calendar date, rows ascend by date, and no date
\* occurs twice when the remote bars hold no duplicate date.
C10_RowsWithinRange ==
    (KDataDone /\ ~ret.raised /\ ParseDate(args.start_date) < ParseDate(args.end_date))
        => LET rows == ret.value.rows
           IN  /\ \A i \in 1..Len(rows) :
                     /\ ParseDate(args.start_date) <= ParseDate(rows[i].date)
                     /\ ParseDate(rows[i].date) < ParseDate(args.end_date)
               /\ \A i \in 1..(Len(rows) - 1) :
                     ParseDate(rows[i].date) <= ParseDate(rows[i + 1].date)
               /\ RemoteDatesDistinct =>
                     \A i, j \in 1..Len(rows) : rows[i].date = rows[j].date => i = j

----------------------------------------------------------------------------
(* validate *)

ValidateDone == op = "validate" /\ pc = "done"

\* the positions of '#' in a symbol
HashAt(y) == {i \in 1..Len(y) : y[i] = "#"}

\* C11: validate returns (int(market), symbol) unchanged for a supplied
\* market, (int(m), s) for an empty market and a symbol "<m>#<s>", and raises
\* ValueError for an empty market and a symbol with no '#' or nothing before it.
C11_ValidateCases ==
    ValidateDone =>
        LET m == args.market
            y == args.symbol
            h == HashAt(y)
        IN  /\ (IsDigits(m) => ret = Ok(PairVal(StrToInt(m), y)))
            /\ (m = <<>> /\ Cardinality(h) = 1 /\ 1 \notin h =>
                   LET k == CHOOSE i \in h : TRUE
                   IN  IsDigits(SubSeq(y, 1, k - 1)) => ret = Ok(PairVal(StrToInt(SubSeq(y, 1, k - 1)),
                                        SubSeq(y, k + 1, Len(y)))))
            /\ (m = <<>> /\ (h = {} \/ 1 \in h) =>
                   ret.raised /\ ret.exc = "ValueError")

C11_Witness ==
    /\ ValidateDone
    /\ args.market = <<>>
    /\ args.symbol = <<"1", "#", "6">>
    /\ ret = Ok(PairVal(1, <<"6">>))

----------------------------------------------------------------------------
(* market codes of stock_count and stocks *)

BadMarketCall ==
    /\ pc = "done"
    /\ \/ op = "stock_count" /\ args.market \notin {0, 1, 2}
       \/ op = "stocks" /\ args.market \notin {0, 1}

\* C12: stock_count with a market outside {0, 1, 2} and stocks with a market
\* outside {0, 1} raise the validation error and issue no remote call.
C12_BadMarketNoRemoteCall ==
    BadMarketCall => ret = Raise("MootdxValidationException") /\ log = <<>>

C12_Witness ==
    /\ BadMarketCall
    /\ op = "stocks"
    /\ args.market = 2
    /\ ret.raised
    /\ log = <<>>

----------------------------------------------------------------------------
(* quotes with no symbol *)

QuotesDone == op = "quotes" /\ pc = "done"

EmptySymbols == args.symbols \in {NoneVal, StrVal(<<>>), ListVal(<<>>)}

\* C13: StdQuotes.quotes with an empty symbols argument (None, '' or an empty
\* sequence) returns an empty table and issues no remote call.
C13_EmptySymbolsNoCall ==
    QuotesDone /\ EmptySymbols =>
        /\ ~ret.raised
        /\ ret.value.kind = "table"
        /\ ret.value.rows = <<>>
        /\ log = <<>>

C13_Witness ==
    /\ QuotesDone
    /\ args.symbols = ListVal(<<>>)
    /\ ~args.answer.raised
    /\ ~args.answer.empty
    /\ ret.value.rows = <<>>
    /\ log = <<>>

----------------------------------------------------------------------------
(* construction, close and reconnect *)

ConnectRaisedAtInit ==
    /\ op = "__init__"
    /\ facade = "ext"
    /\ args.connect \in {"raised_before_socket", "raised_after_socket"}

\* C14: when connect raises during the construction of an ExtQuotes the
\* constructor completes without propagating and the session is disconnected
\* (closed is true).
C14_FailedConnectLeavesClosed ==
    ConnectRaisedAtInit => pc = "done" /\ ~ret.raised /\ closed

CloseDone == op \in {"close", "__del__"} /\ pc \in {"done", "gone"}

\* C15: close() never raises, whatever the state of the session (connected,
\* left disconnected by a failed construction, already closed, or without a
\* transport object at all), and __del__ invokes close().
C15_CloseNeverRaises ==
    CloseDone =>
        /\ ~ret.raised
        /\ Len(log) = (IF args.before = "noclient" THEN 0 ELSE 1)
        /\ \A i \in 1..Len(log) : log[i].api = "close"

C15_Witness ==
    /\ CloseDone
    /\ op = "close"
    /\ args.before = "noclient"
    /\ ~ret.raised

ReconnectDone == op = "reconnect" /\ pc = "done"

\* C16: reconnect() on a session that is not alive calls connect exactly once
\* with the endpoint resolved at construction and leaves the session alive; on
\* an alive session it makes no connect call and leaves the transport as it is.
C16_ReconnectRestoresSession ==
    ReconnectDone =>
        IF args.before \in {"none", "closed"}
        THEN /\ ~ret.raised
             /\ Len(log) = 1
             /\ log[1].api = "connect"
             /\ transport = "open"
        ELSE args.before \in {"open", "unconnected"} =>
                ~ret.raised /\ log = <<>> /\ transport = args.before

----------------------------------------------------------------------------
(* paging *)

\* the least k with k * size >= d, for d > 0
PagesNeeded(d, size) == CHOOSE k \in 1..d : (k - 1) * size < d /\ d <= k * size

KNoRemoteError == \A i \in 1..Len(args.replies) : ~args.replies[i].raised

\* C17: when lastOffset - firstOffset is positive get_k_data issues exactly
\* ceil((lastOffset - firstOffset) / 800) daily bar requests, request i (from
\* 0, in increasing order) with start firstOffset + i * 800 and count 800: the
\* windows are contiguous, do not overlap and cover [firstOffset, lastOffset).
C17_KDataPaging ==
    KDataDone =>
        LET first == FirstOffset(args.end_date, args.today)
            last == LastOffset(args.start_date, args.today)
        IN  last - first > 0 =>
               LET n == PagesNeeded(last - first, 800)
               IN  /\ Len(log) <= n
                   /\ KNoRemoteError => Len(log) = n
                   /\ \A i \in 1..Len(log) :
                         /\ log[i].api = "get_security_bars"
                         /\ log[i].category = 9
                         /\ log[i].start = first + (i - 1) * 800
                         /\ log[i].count = 800
                   /\ first + n * 800 >= last

C17_Witness ==
    /\ KDataDone
    /\ KNoRemoteError
    /\ Len(log) = 2
    /\ log[2].start = log[1].start + 800
    /\ ~ret.raised
    /\ ret.value.rows # <<>>

InstrumentsDone == ExtCall /\ op = "instruments" /\ pc = "done"

\* the positions in the log where an attempt of instruments() read the count
CountReads == {i \in 1..Len(log) : log[i].api = "get_instrument_count"}

\* C18: within one attempt instruments() reads the total count once and then
\* issues exactly ceil(count / 100) page requests at starts 0, 100, ... in
\* ascending order with page size 100; the table returned is the in-order
\* concatenation of the pages of the final attempt only.
C18_InstrumentsPaging ==
    InstrumentsDone /\ ~hist[Len(hist)].raised =>
        /\ Cardinality(CountReads) = Len(hist)
        /\ LET last == CHOOSE i \in CountReads : \A j \in CountReads : j <= i
               count == log[last].got.value.n
               n == IF count = 0 THEN 0 ELSE PagesNeeded(count, 100)
           IN  /\ Len(log) = last + n
               /\ \A j \in 1..n :
                     /\ log[last + j].api = "get_instrument_info"
                     /\ log[last + j].start = (j - 1) * 100
                     /\ log[last + j].count = 100
               /\ ~ret.raised
               /\ ret.value.kind = "table"
               /\ ret.value.rows = [i \in 1..count |-> [idx |-> i]]

C18_Witness ==
    /\ InstrumentsDone
    /\ Len(hist) = 2
    /\ hist[1].raised
    /\ Len(log) = 6
    /\ ~ret.raised
    /\ Len(ret.value.rows) = 101

StocksListed ==
    /\ op = "stocks"
    /\ pc = "done"
    /\ args.market \in {0, 1}
    /\ ~args.count.raised
    /\ args.count.value.kind = "int"
    /\ args.count.value.n > 0

\* C19: stocks(market) for SH or SZ with a count above zero issues its list
\* requests at starts 0, 1000, 2000, ... in ascending order, and its result is
\* the concatenation of all pages in request order: no page is dropped,
\* overwritten or duplicated.
C19_StocksAllPages ==
    StocksListed =>
        LET c == args.count.value.n
            n == PagesNeeded(c, 1000)
        IN  /\ Len(log) = 1 + n
            /\ log[1].api = "get_security_count"
            /\ \A j \in 1..n :
                  /\ log[1 + j].api = "get_security_list"
                  /\ log[1 + j].start = (j - 1) * 1000
            /\ ~ret.raised
            /\ ret.value.kind = "table"
            /\ ret.value.rows = [i \in 1..c |-> [market |-> args.market, idx |-> i]]

C19_Witness ==
    /\ StocksListed
    /\ args.count.value.n = 2001
    /\ Len(log) = 4
    /\ Len(ret.value.rows) = 2001

----------------------------------------------------------------------------
(* no retry in StdQuotes *)

StdSingleCallOps ==
    {"bars", "index_bars", "minutes", "transaction", "transactions", "xdxr", "finance",
     "stock_count"}

StdSingleDone == facade = "std" /\ op \in StdSingleCallOps /\ pc = "done"

\* the operation refused its arguments before calling the remote
StdRejected == ret.raised /\ ret.exc \in {"MootdxValidationException", "ValueError"}

\* C20: no StdQuotes operation is retried: a single-call operation that
\* accepts its arguments issues exactly one remote call, returns an empty
\* result as it is and lets an exception propagate on its first occurrence,
\* whereas the same outcome of a first attempt in ExtQuotes starts a retry.
C20_StdNeverRetries ==
    /\ StdSingleDone /\ ~StdRejected =>
          /\ Len(log) = 1
          /\ attempt = 0 /\ hist = <<>> /\ waited = 0
          /\ args.answer.raised => ret = Raise(args.answer.exc)
          /\ args.answer.empty => ~ret.raised /\ IsEmptyResult(ret.value)
    /\ ExtCall /\ Len(hist) = 1 /\ Failed(hist[1]) =>
          pc \in {"wait", "attempt"} /\ (pc = "attempt" => attempt = 2)

C20_Witness ==
    /\ StdSingleDone
    /\ op = "finance"
    /\ args.answer.raised
    /\ ret.raised
    /\ Len(log) = 1

----------------------------------------------------------------------------
(* an unresolvable market in ExtQuotes *)

\* the call names no market: none was passed and the symbol has no '#' or
\* nothing before it
Unresolvable ==
    /\ ExtCall
    /\ op \in ExtValidated
    /\ args.market = <<>>
    /\ (HashAt(args.symbol) = {} \/ 1 \in HashAt(args.symbol))

\* C21: an ExtQuotes operation invoked with an unresolvable market is retried
\* like any other failure: every attempt ends in the ValueError of validate,
\* there are 3 attempts, and no remote call is issued in any of them.
C21_UnresolvableMarketRetried ==
    Unresolvable =>
        /\ log = <<>>
        /\ \A i \in 1..Len(hist) : hist[i] = Raise("ValueError")
        /\ Len(hist) = (IF pc = "attempt" THEN attempt - 1 ELSE attempt)
        /\ (Len(hist) \in {1, 2} => pc \in {"wait", "attempt"})
        /\ (pc = "done" => Len(hist) = 3 /\ ~ret.raised /\ ret.value.kind = "none")

C21_Witness ==
    /\ Unresolvable
    /\ op = "quote"
    /\ pc = "done"
    /\ Len(hist) = 3
    /\ hist[3] = Raise("ValueError")
    /\ log = <<>>

----------------------------------------------------------------------------
(* the two estimated offsets of get_k_data, over ranges of calendar dates *)

\* the largest number of days between a date and today, every gap up to it
\* being tried
MaxGap == 40

\* datetime.now().date(): the day of the model, the next day, and a day of
\* the next year
Todays == {Today, Today + 1, Today + 200}

\* how many days before today a date lies (negative: after today); the far
\* gaps make ranges of more than one page
DayGaps == ((0 - 2)..MaxGap) \cup {1199, 1200, 1201, 3000}

\* get_k_data(code, start_date, end_date) about to be called on a day
OffsetInit ==
    /\ facade = "std"
    /\ transport = "open"
    /\ pc = "idle"
    /\ op = "none"
    /\ \E today \in Todays, gs \in DayGaps, ge \in DayGaps, fmt \in DateFormats :
          args = [start_date |-> FormatDate(today - gs, fmt),
                  end_date |-> FormatDate(today - ge, fmt),
                  today |-> today]
    /\ attempt = 0
    /\ hist = <<>>
    /\ waited = 0
    /\ log = <<>>
    /\ ret = NoRet

\* the first statements of get_k_data: first, last and the range of the loop
KOffsets ==
    /\ pc = "idle"
    /\ op = "none"
    /\ LET first == FirstOffset(args.end_date, args.today)
           last == LastOffset(args.start_date, args.today)
       IN  args' = [start_date |-> args.start_date, end_date |-> args.end_date,
                    today |-> args.today, first |-> first, last |-> last,
                    pages |-> PageCount(first, last)]
    /\ pc' = "done"
    /\ op' = "get_k_data"
    /\ UNCHANGED <<facade, transport, attempt, hist, waited, log, ret>>

OffsetNext == KOffsets

OffsetSpec == OffsetInit /\ [][OffsetNext]_vars

OffsetsDone == op = "get_k_data" /\ pc = "done" /\ "first" \in DOMAIN args

WellOrdered == ParseDate(args.start_date) <= ParseDate(args.end_date)

\* C22: for every pair of calendar dates with start_date <= end_date, on any
\* day, the two estimated offsets of get_k_data satisfy
\* 0 <= first <= last, so the page count is never negative.
C22_OffsetsOrdered ==
    (OffsetsDone /\ WellOrdered) =>
        /\ 0 <= args.first
        /\ args.first <= args.last
        /\ args.pages >= 0

\* a range of past dates, more than one page long
C22_Witness ==
    /\ OffsetsDone
    /\ ParseDate(args.start_date) < ParseDate(args.end_date)
    /\ ParseDate(args.end_date) < args.today
    /\ 0 < args.first
    /\ args.first < args.last
    /\ args.pages = 2

====
